---- MODULE Spec2Model ----
(***************************************************************************)
(* A model of the symptom-checker's recommendation core:                   *)
(*   models/symptom.py       SymptomModel.preprocess_symptoms              *)
(*   models/database.py      the read helpers the recommender uses         *)
(*   models/recommender.py   RecommenderModel.fit / recommend              *)
(*   controllers/recommender_controller.py  the fail-soft facade           *)
(*                                                                         *)
(* Python values are modelled as tagged records, so that a str, a list,    *)
(* None and an int can sit in one collection:                              *)
(*   [str |-> <<c1, ..., cn>>]   a str, as the sequence of its characters  *)
(*   [list |-> <<e1, ..., en>>]  a list                                    *)
(*   [none |-> TRUE]             None                                      *)
(*   [int |-> i]                 an int                                    *)
(***************************************************************************)
EXTENDS Integers, Sequences, FiniteSets, TLC

VARIABLES
    links,          \* rows of symptom_disease joined with diseases and symptoms
    dbDown,         \* the cursor raises on execute (closed connection, dropped tables)
    argsortTies,    \* how this build's numpy.argsort orders equal keys
    vectorizer,     \* RecommenderModel.vectorizer
    tfidf_matrix,   \* RecommenderModel.tfidf_matrix
    disease_names,  \* RecommenderModel.disease_names
    everFit,        \* history: some fit() call has completed successfully
    ret,            \* the outcome of the call that has just ended, NoCall once taken
    nIn,            \* normalizer harness: the argument of preprocess_symptoms
    nOut,           \* normalizer harness: its result
    nStage,         \* normalizer harness: what has been applied so far
    nAlt,           \* normalizer harness: a rearranged or extended argument
    fitPc,          \* stepwise fit(): the statement the fitting thread is at
    fitFrame,       \* stepwise fit(): its local matrix_dataframe
    prior,          \* stepwise fit(): the three attributes when it was entered
    fIn,            \* score arithmetic: the corpus size and the terms of a row and a query
    fRow,           \* score arithmetic: the row of tfidf_matrix
    fQuery,         \* score arithmetic: user_vector
    fScore,         \* score arithmetic: the similarity
    fStage,         \* score arithmetic: what has been computed so far
    users,          \* the rows of the users table
    nextUserId,     \* the id AUTOINCREMENT gives the next row of users
    session,        \* st.session_state of one browser session
    uRet,           \* the outcome of the last user, admin or page operation
    cRet            \* controller harness: the outcome of the last controller call

vars == <<links, dbDown, argsortTies, vectorizer, tfidf_matrix, disease_names,
          everFit, ret, nIn, nOut, nStage, nAlt, fitPc, fitFrame, prior,
          fIn, fRow, fQuery, fScore, fStage, users, nextUserId, session, uRet, cRet>>

recVars == <<links, dbDown, argsortTies, vectorizer, tfidf_matrix, disease_names,
             everFit, ret>>

normVars == <<nIn, nOut, nStage, nAlt>>

fitVars == <<fitPc, fitFrame, prior>>

\* what the operations of the recommender leave alone
floatVars == <<fIn, fRow, fQuery, fScore, fStage>>

userVars == <<users, nextUserId, session, uRet, cRet>>

harnessVars == <<normVars, fitVars, floatVars, userVars>>

-----------------------------------------------------------------------------
(* Python values *)

PyStr(cs) == [str |-> cs]

PyList(es) == [list |-> es]

PyNone == [none |-> TRUE]

PyInt(i) == [int |-> i]

isinstance_str(v) == "str" \in DOMAIN v

isinstance_list(v) == "list" \in DOMAIN v

-----------------------------------------------------------------------------
(* Characters.  Code is the code point, which orders str values.            *)

Code(c) ==
    CASE c = "\t" -> 9
      [] c = " " -> 32
      [] c = "A" -> 65
      [] c = "B" -> 66
      [] c = "_" -> 95
      [] c = "a" -> 97
      [] c = "b" -> 98
      [] c = "c" -> 99

IsSpace(c) == c \in {" ", "\t"}

\* \w of the re module: letters, digits and the underscore
IsWord(c) == c \in {"A", "B", "_", "a", "b", "c"}

LowerChar(c) ==
    CASE c = "A" -> "a"
      [] c = "B" -> "b"
      [] OTHER -> c

-----------------------------------------------------------------------------
(* str methods, on character sequences *)

RECURSIVE lstrip(_)
lstrip(s) ==
    IF s # <<>> /\ IsSpace(Head(s)) THEN lstrip(Tail(s)) ELSE s

RECURSIVE rstrip(_)
rstrip(s) ==
    IF s # <<>> /\ IsSpace(s[Len(s)]) THEN rstrip(SubSeq(s, 1, Len(s) - 1)) ELSE s

strip(s) == rstrip(lstrip(s))

\* the mutant of lower: the case is kept
keep_case(s) == s

lower(s) == [i \in 1..Len(s) |-> LowerChar(s[i])]

\* re.sub(r"\s+", "_", s): every maximal run of whitespace becomes one underscore
RECURSIVE re_sub_ws(_)
re_sub_ws(s) ==
    IF s = <<>> THEN <<>>
    ELSE IF IsSpace(Head(s)) THEN <<"_">> \o re_sub_ws(lstrip(s))
    ELSE <<Head(s)>> \o re_sub_ws(Tail(s))

\* s < t for str: lexicographic by code point, a proper prefix first
RECURSIVE StrLess(_, _)
StrLess(s, t) ==
    IF t = <<>> THEN FALSE
    ELSE IF s = <<>> THEN TRUE
    ELSE IF Code(Head(s)) # Code(Head(t)) THEN Code(Head(s)) < Code(Head(t))
    ELSE StrLess(Tail(s), Tail(t))

\* sorted(set(tokens)) for a set of str
RECURSIVE sorted(_)
sorted(S) ==
    IF S = {} THEN <<>>
    ELSE LET m == CHOOSE x \in S : \A y \in S \ {x} : StrLess(x, y)
         IN <<m>> \o sorted(S \ {m})

\* " ".join(tokens)
RECURSIVE join(_)
join(toks) ==
    IF toks = <<>> THEN <<>>
    ELSE IF Len(toks) = 1 THEN toks[1]
    ELSE toks[1] \o <<" ">> \o join(Tail(toks))

\* the maximal runs of characters of s that are not separators, in order
RECURSIVE Runs(_, _, _)
Runs(s, cur, wsOnly) ==
    IF s = <<>> THEN (IF cur = <<>> THEN <<>> ELSE <<cur>>)
    ELSE IF (wsOnly /\ IsSpace(Head(s))) \/ (~wsOnly /\ ~IsWord(Head(s)))
         THEN (IF cur = <<>> THEN <<>> ELSE <<cur>>) \o Runs(Tail(s), <<>>, wsOnly)
         ELSE Runs(Tail(s), Append(cur, Head(s)), wsOnly)

\* raw.split(): split on runs of whitespace, no empty strings
split(s) == Runs(s, <<>>, TRUE)

Range(f) == {f[i] : i \in DOMAIN f}

-----------------------------------------------------------------------------
(* models/symptom.py: SymptomModel.preprocess_symptoms *)

\* the mutant of iter_items: a loop that starts at the second entry
iter_items_from_second(symptoms) ==
    IF isinstance_list(symptoms) THEN
        (IF symptoms.list = <<>> THEN <<>> ELSE Tail(symptoms.list))
    ELSE IF symptoms.str = <<>> THEN <<>>
    ELSE Tail([i \in 1..Len(symptoms.str) |-> PyStr(<<symptoms.str[i]>>)])

\* "for raw_symptom in symptoms": the entries of a list, the characters of a str
iter_items(symptoms) ==
    IF isinstance_list(symptoms) THEN symptoms.list
    ELSE [i \in 1..Len(symptoms.str) |-> PyStr(<<symptoms.str[i]>>)]

\* the mutant of collapse_whitespace: str.replace, one underscore per whitespace
\* character
replace_each_whitespace(s) ==
    [i \in 1..Len(s) |-> IF IsSpace(s[i]) THEN "_" ELSE s[i]]

collapse_whitespace(s) == re_sub_ws(s)

\* the mutant of cleaned_symptom_tokens: the "if not stripped: continue" left out
RECURSIVE cleaned_symptom_tokens_keep_blank(_)
cleaned_symptom_tokens_keep_blank(items) ==
    IF items = <<>> THEN <<>>
    ELSE LET raw_symptom == Head(items)
             rest == cleaned_symptom_tokens_keep_blank(Tail(items))
         IN IF ~isinstance_str(raw_symptom) THEN rest
            ELSE <<collapse_whitespace(lower(strip(raw_symptom.str)))>> \o rest

\* the loop body's effect on cleaned_symptom_tokens, entry by entry
RECURSIVE cleaned_symptom_tokens(_)
cleaned_symptom_tokens(items) ==
    IF items = <<>> THEN <<>>
    ELSE LET raw_symptom == Head(items)
             rest == cleaned_symptom_tokens(Tail(items))
         IN IF ~isinstance_str(raw_symptom) THEN rest
            ELSE LET stripped == lower(strip(raw_symptom.str))
                 IN IF stripped = <<>> THEN rest
                    ELSE <<collapse_whitespace(stripped)>> \o rest

\* the result, a str; '' when iterating the argument raises (None, an int)
preprocess_symptoms(symptoms) ==
    IF ~(isinstance_list(symptoms) \/ isinstance_str(symptoms)) THEN <<>>
    ELSE join(sorted(Range(cleaned_symptom_tokens(iter_items(symptoms)))))

-----------------------------------------------------------------------------
(* The storage the recommender reads (models/database.py).                  *)
(* A disease is the rank of its disease_name among the stored names in      *)
(* ascending order, the order in which groupby("disease") emits its groups. *)

MaxLinks == 3

MaxQueryLen == 1

MaxTopN == 3

Diseases == {1, 2}

\* symptom_name values: "B", "a b" (interior whitespace), "a_b"
DbNames == {<<"B">>, <<"a", " ", "b">>, <<"a", "_", "b">>}

\* symptom_precautions: disease 1 has the row "a, b", the others have none
PrecautionRow(d) ==
    IF d = 1 THEN PyStr(<<"a", ",", " ", "b">>) ELSE PyNone

\* symptom_severity: "B" has the level "2", "a_b" the level "x", "a b" no row
SeverityRow(s) ==
    IF s = <<"B">> THEN PyStr(<<"2">>)
    ELSE IF s = <<"a", "_", "b">> THEN PyStr(<<"x">>)
    ELSE PyNone

\* s.split(', ')
RECURSIVE split_comma(_, _)
split_comma(s, cur) ==
    IF s = <<>> THEN <<PyStr(cur)>>
    ELSE IF Len(s) >= 2 /\ s[1] = "," /\ s[2] = " "
         THEN <<PyStr(cur)>> \o split_comma(SubSeq(s, 3, Len(s)), <<>>)
         ELSE split_comma(Tail(s), Append(cur, Head(s)))

\* the elements of a set of integers in ascending order
RECURSIVE Ascending(_)
Ascending(S) ==
    IF S = {} THEN <<>>
    ELSE LET m == CHOOSE x \in S : \A y \in S : x <= y
         IN <<m>> \o Ascending(S \ {m})

\* One row per disease that has a link: its names, deduplicated, sorted and
\* space-joined.  A failing query is caught and gives a frame without columns.
get_disease_symptom_matrix ==
    IF dbDown THEN [columns |-> {}, rows |-> <<>>]
    ELSE LET linked == Ascending({l[1] : l \in links})
         IN [columns |-> {"disease", "symptom"},
             rows |-> [i \in 1..Len(linked) |->
                         [disease |-> linked[i],
                          symptom |-> join(sorted({l[2] : l \in
                                        {k \in links : k[1] = linked[i]}}))]]]

\* the names linked to the disease; [] when the query raises
get_symptoms_by_disease(d) ==
    IF dbDown THEN <<>>
    ELSE sorted({l[2] : l \in {k \in links : k[1] = d}})

\* precaution_steps.split(', '), None without a row or when the query raises
get_precautions_by_disease(d) ==
    IF dbDown \/ PrecautionRow(d) = PyNone THEN PyNone
    ELSE PyList(split_comma(PrecautionRow(d).str, <<>>))

\* the severity_level of the name, None without a row or when the query raises
get_severity_by_symptom(s) ==
    IF dbDown THEN PyNone ELSE SeverityRow(s)

-----------------------------------------------------------------------------
(* sklearn's TfidfVectorizer as fit() configures it: token_pattern          *)
(* (?u)\b\w+\b, lowercase, sublinear_tf, min_df 1, smooth idf, l2 norm.     *)
(* Weights are kept squared and scaled by 10, as integers: the squared      *)
(* weight of a term of a row is idf(term)^2 * 10 (its tf is 1: a cleaned    *)
(* document holds each token once and a token is one \w+ match), and the    *)
(* l2 normalisation is applied where the cosine is taken.                   *)

\* 1000 * ln(k), k = 1..8
LnMilli == <<0, 693, 1099, 1386, 1609, 1792, 1946, 2079>>

\* 1000 * idf = 1000 * (ln((1 + n) / (1 + df)) + 1)
IdfMilli(n, df) == 1000 + LnMilli[n + 1] - LnMilli[df + 1]

IdfSquared10(n, df) == (IdfMilli(n, df) * IdfMilli(n, df)) \div 100000

\* the analyzer: lower-case, then every \w+ match
analyze(doc) == Runs(lower(doc), <<>>, FALSE)

UnfittedVectorizer == [fitted |-> FALSE]

\* fit_transform(documents): the fitted vectorizer and the matrix, or
\* ValueError("empty vocabulary") when no document holds a token
fit_transform(documents) ==
    LET terms == [i \in 1..Len(documents) |-> Range(analyze(documents[i]))]
        vocabulary == UNION Range(terms)
        n == Len(documents)
        df(t) == Cardinality({i \in 1..n : t \in terms[i]})
        idf == [t \in vocabulary |-> IdfSquared10(n, df(t))]
    IN IF vocabulary = {} THEN [raised |-> "ValueError"]
       ELSE [raised |-> "none",
             vectorizer |-> [fitted |-> TRUE, vocabulary |-> vocabulary, idf |-> idf],
             matrix |-> [rows |-> [i \in 1..n |->
                          [t \in vocabulary |-> IF t \in terms[i] THEN idf[t] ELSE 0]]]]

-----------------------------------------------------------------------------
(* models/recommender.py: RecommenderModel.fit *)

\* the documents fit() hands to the vectorizer, one per row of the frame:
\* preprocess_symptoms(raw.split())
cleaned_documents(matrix_dataframe) ==
    LET rows == matrix_dataframe.rows
    IN [i \in 1..Len(rows) |->
          preprocess_symptoms(PyList(
              [j \in 1..Len(split(rows[i].symptom)) |->
                  PyStr(split(rows[i].symptom)[j])]))]

\* The three attributes after fit(), and whether it completed.  The
\* assignments happen in the order of the code, so an exception keeps the
\* ones made before it.
fit_outcome ==
    LET matrix_dataframe == get_disease_symptom_matrix
    IN IF "disease" \notin matrix_dataframe.columns THEN
          \* KeyError at matrix_dataframe["disease"]
          [ok |-> FALSE, disease_names |-> disease_names,
           vectorizer |-> vectorizer, tfidf_matrix |-> tfidf_matrix]
       ELSE LET rows == matrix_dataframe.rows
                names == [i \in 1..Len(rows) |-> rows[i].disease]
                fitted == fit_transform(cleaned_documents(matrix_dataframe))
            IN IF fitted.raised # "none" THEN
                  [ok |-> FALSE, disease_names |-> names,
                   vectorizer |-> UnfittedVectorizer, tfidf_matrix |-> tfidf_matrix]
               ELSE [ok |-> TRUE, disease_names |-> names,
                     vectorizer |-> fitted.vectorizer, tfidf_matrix |-> fitted.matrix]

-----------------------------------------------------------------------------
(* models/recommender.py: RecommenderModel.recommend *)

RECURSIVE SumOver(_, _)
SumOver(S, f) ==
    IF S = {} THEN 0
    ELSE LET t == CHOOSE x \in S : TRUE
         IN f[t] + SumOver(S \ {t}, f)

\* A similarity is kept exact as num / sqrt(den), with 0 as 0 / sqrt(1).
ZeroScore == [num |-> 0, den |-> 1]

ScoreLess(s1, s2) == s1.num * s1.num * s2.den < s2.num * s2.num * s1.den

ScoreEq(s1, s2) == s1.num * s1.num * s2.den = s2.num * s2.num * s1.den

ScoreIsZero(s) == s.num = 0

ScoreIsOne(s) == s.num * s.num = s.den

\* the mutant of similarity_scores: the query vector keeps a weight for the
\* terms outside the vocabulary
similarity_scores_unknown_weighted(user_document) ==
    LET vocabulary == vectorizer.vocabulary
        terms == Range(analyze(user_document))
        query == terms \cap vocabulary
        rows == tfidf_matrix.rows
        dot(i) == SumOver({t \in query : rows[i][t] > 0}, rows[i])
        norms(i) == (SumOver(query, vectorizer.idf) + 10 * Cardinality(terms \ vocabulary))
                        * SumOver(vocabulary, rows[i])
    IN [i \in 1..Len(rows) |->
          IF dot(i) = 0 \/ norms(i) = 0 THEN ZeroScore
          ELSE [num |-> dot(i), den |-> norms(i)]]

\* cosine_similarity(vectorizer.transform([user_document]), tfidf_matrix)[0]:
\* terms outside the vocabulary are dropped by transform
similarity_scores(user_document) ==
    LET vocabulary == vectorizer.vocabulary
        query == Range(analyze(user_document)) \cap vocabulary
        rows == tfidf_matrix.rows
        dot(i) == SumOver({t \in query : rows[i][t] > 0}, rows[i])
        norms(i) == SumOver(query, vectorizer.idf) * SumOver(vocabulary, rows[i])
    IN [i \in 1..Len(rows) |->
          IF dot(i) = 0 \/ norms(i) = 0 THEN ZeroScore
          ELSE [num |-> dot(i), den |-> norms(i)]]

\* numpy.argsort: the row numbers in ascending order of score.  The default
\* kind is not a stable sort: where equal scores land depends on the build
\* (argsortTies: "stable" keeps the lower row first, "reversed" the higher).
RECURSIVE argsort_from(_, _)
argsort_from(scores, left) ==
    IF left = {} THEN <<>>
    ELSE LET first(i, j) ==
                 \/ ScoreLess(scores[i], scores[j])
                 \/ /\ ScoreEq(scores[i], scores[j])
                    /\ IF argsortTies = "stable" THEN i < j ELSE i > j
             m == CHOOSE i \in left : \A j \in left \ {i} : first(i, j)
         IN <<m>> \o argsort_from(scores, left \ {m})

argsort(scores) == argsort_from(scores, DOMAIN scores)

reversed(seq) == [i \in 1..Len(seq) |-> seq[Len(seq) + 1 - i]]

\* seq[:n]
slice_to(seq, n) ==
    IF n >= 0 THEN SubSeq(seq, 1, IF n < Len(seq) THEN n ELSE Len(seq))
    ELSE SubSeq(seq, 1, IF Len(seq) + n > 0 THEN Len(seq) + n ELSE 0)

\* the mutant of ranked_indices: the reversal left out
ranked_indices_ascending(scores, top_n) == slice_to(argsort(scores), top_n)

\* similarity_scores.argsort()[::-1][:top_n]
ranked_indices(scores, top_n) == slice_to(reversed(argsort(scores)), top_n)

\* the mutant of not_fit: only the vectorizer is looked at
not_fit_vectorizer_only == vectorizer = PyNone

\* the fit gate: "self.vectorizer is None or self.tfidf_matrix is None"
not_fit == vectorizer = PyNone \/ tfidf_matrix = PyNone

Raised(kind) == [raised |-> kind, value |-> <<>>]

Returned(value) == [raised |-> "none", value |-> value]

\* What recommend does: raises TypeError or RuntimeError, or returns a list
\* of <<disease, score>>; any exception inside its try block gives [].
recommend(selected_symptoms, top_n) ==
    IF ~isinstance_list(selected_symptoms) THEN Raised("TypeError")
    ELSE IF not_fit THEN Raised("RuntimeError")
    ELSE LET user_document == preprocess_symptoms(selected_symptoms)
         IN IF ~vectorizer.fitted THEN Returned(<<>>)        \* NotFittedError
            ELSE LET scores == similarity_scores(user_document)
                     ranked == ranked_indices(scores, top_n)
                 IN IF \E k \in 1..Len(ranked) : ranked[k] > Len(disease_names)
                    THEN Returned(<<>>)                      \* IndexError
                    ELSE Returned([k \in 1..Len(ranked) |->
                             <<disease_names[ranked[k]], scores[ranked[k]]>>])

-----------------------------------------------------------------------------
(* controllers/recommender_controller.py *)

\* the mutant of recommend_diseases: "except RuntimeError" for "except Exception"
recommend_diseases_runtime_only(selected_symptoms, top_n) ==
    LET r == recommend(selected_symptoms, top_n)
    IN IF r.raised = "RuntimeError" THEN Returned(<<>>) ELSE r

recommend_diseases(selected_symptoms, top_n) ==
    LET r == recommend(selected_symptoms, top_n)
    IN IF r.raised # "none" THEN Returned(<<>>) ELSE r

\* the mutant of recommend_with_details: every entry gets the symptoms of the
\* first-ranked disease
recommend_with_details_first_symptoms(selected_symptoms, top_n) ==
    LET r == recommend(selected_symptoms, top_n)
    IN IF r.raised # "none" THEN Returned(<<>>)
       ELSE Returned([k \in 1..Len(r.value) |->
                [disease |-> r.value[k][1],
                 score |-> r.value[k][2],
                 symptoms |-> get_symptoms_by_disease(r.value[1][1]),
                 precautions |-> get_precautions_by_disease(r.value[k][1])]])

\* Neither storage helper raises (each catches and returns its default), so
\* the except branch is reached only when recommend raises.
recommend_with_details(selected_symptoms, top_n) ==
    LET r == recommend(selected_symptoms, top_n)
    IN IF r.raised # "none" THEN Returned(<<>>)
       ELSE Returned([k \in 1..Len(r.value) |->
                [disease |-> r.value[k][1],
                 score |-> r.value[k][2],
                 symptoms |-> get_symptoms_by_disease(r.value[k][1]),
                 precautions |-> get_precautions_by_disease(r.value[k][1])]])

-----------------------------------------------------------------------------
(* The state machine *)

NoCall == [op |-> "none"]

QueryNames == DbNames

\* what a list passed as selected_symptoms holds: names, or an int
QueryEntries == {PyStr(s) : s \in QueryNames} \cup {PyInt(123)}

\* what a caller passes as selected_symptoms: None, a plain str, or a list
Selections ==
    {PyNone, PyStr(<<"B">>)} \cup
    {PyList(q) : q \in UNION {[1..k -> QueryEntries] : k \in 0..MaxQueryLen}}

\* top_n is any int: the counts the pages pass, 0, and a negative one
TopNs == -1..MaxTopN

NormIdle ==
    /\ nIn = PyList(<<>>)
    /\ nOut = <<>>
    /\ nStage = "idle"
    /\ nAlt = PyList(<<>>)

NoFrame == [columns |-> {}, rows |-> <<>>]

FitIdle ==
    /\ fitPc = "idle"
    /\ fitFrame = NoFrame
    /\ prior = <<PyNone, PyNone, <<>>>>

\* A browser session: the keys user, user_id and current_page of
\* st.session_state (None while unset), whether the controllers are in it,
\* the buttons the last run of the script drew, and whether a run is due.
\* Here no run has been made yet.
NoSession == [user |-> PyNone, user_id |-> PyNone, current_page |-> PyNone,
              controllers |-> FALSE, exposed |-> {}, rerun |-> TRUE]

UserIdle ==
    /\ users = {}
    /\ nextUserId = 1
    /\ session = NoSession
    /\ uRet = NoCall
    /\ cRet = NoCall

FloatIdle ==
    /\ fIn = [n |-> 1, terms |-> <<>>]
    /\ fRow = <<>>
    /\ fQuery = <<>>
    /\ fScore = [m |-> <<>>, e |-> 0]
    /\ fStage = "idle"

Init ==
    /\ links = {}
    /\ dbDown = FALSE
    /\ argsortTies \in {"stable", "reversed"}
    /\ vectorizer = PyNone
    /\ tfidf_matrix = PyNone
    /\ disease_names = <<>>
    /\ everFit = FALSE
    /\ ret = NoCall
    /\ NormIdle
    /\ FitIdle
    /\ UserIdle
    /\ FloatIdle

\* INSERT INTO symptom_disease
LinkSymptom(d, s) ==
    /\ ret = NoCall
    /\ fitPc = "idle"
    /\ Cardinality(links) < MaxLinks
    /\ <<d, s>> \notin links
    /\ links' = links \cup {<<d, s>>}
    /\ UNCHANGED <<dbDown, argsortTies, vectorizer, tfidf_matrix, disease_names,
                   everFit, ret, harnessVars>>

\* create_tables: every table is dropped (users among them, and with it the
\* AUTOINCREMENT sequence of its ids) and created empty
create_tables ==
    /\ links' = {}
    /\ users' = {}
    /\ nextUserId' = 1

CreateTables ==
    /\ ret = NoCall
    /\ fitPc = "idle"
    /\ links # {} \/ users # {}
    /\ create_tables
    /\ UNCHANGED <<dbDown, argsortTies, vectorizer, tfidf_matrix, disease_names,
                   everFit, ret, normVars, fitVars, floatVars, session, uRet, cRet>>

\* the storage starts, or stops, raising on every query
StorageToggles ==
    /\ ret = NoCall
    /\ fitPc = "idle"
    /\ dbDown' = ~dbDown
    /\ UNCHANGED <<links, argsortTies, vectorizer, tfidf_matrix, disease_names,
                   everFit, ret, harnessVars>>

Fit ==
    /\ ret = NoCall
    /\ disease_names' = fit_outcome.disease_names
    /\ vectorizer' = fit_outcome.vectorizer
    /\ tfidf_matrix' = fit_outcome.tfidf_matrix
    /\ everFit' = (everFit \/ fit_outcome.ok)
    /\ ret' = [op |-> "fit", ok |-> fit_outcome.ok]
    /\ UNCHANGED <<links, dbDown, argsortTies, harnessVars>>

CallResult(op, selected_symptoms, top_n, outcome) ==
    [op |-> op, selected_symptoms |-> selected_symptoms, top_n |-> top_n,
     raised |-> outcome.raised, value |-> outcome.value]

\* the mutant of Recommend: the ranked names are kept in disease_names
RecommendKeepingRanked ==
    /\ ret = NoCall
    /\ \E sel \in Selections, n \in TopNs :
          /\ ret' = CallResult("recommend", sel, n, recommend(sel, n))
          /\ disease_names' = [k \in 1..Len(recommend(sel, n).value) |->
                                  recommend(sel, n).value[k][1]]
    /\ UNCHANGED <<links, dbDown, argsortTies, vectorizer, tfidf_matrix,
                   everFit, harnessVars>>

Recommend ==
    /\ ret = NoCall
    /\ \E sel \in Selections, n \in TopNs :
          ret' = CallResult("recommend", sel, n, recommend(sel, n))
    /\ UNCHANGED <<links, dbDown, argsortTies, vectorizer, tfidf_matrix,
                   disease_names, everFit, harnessVars>>

RecommendDiseases ==
    /\ ret = NoCall
    /\ \E sel \in Selections, n \in TopNs :
          ret' = CallResult("recommend_diseases", sel, n, recommend_diseases(sel, n))
    /\ UNCHANGED <<links, dbDown, argsortTies, vectorizer, tfidf_matrix,
                   disease_names, everFit, harnessVars>>

RecommendWithDetails ==
    /\ ret = NoCall
    /\ \E sel \in Selections, n \in TopNs :
          ret' = CallResult("recommend_with_details", sel, n,
                            recommend_with_details(sel, n))
    /\ UNCHANGED <<links, dbDown, argsortTies, vectorizer, tfidf_matrix,
                   disease_names, everFit, harnessVars>>

\* the caller takes the outcome; the next operation starts from here
Return ==
    /\ ret # NoCall
    /\ ret' = NoCall
    /\ UNCHANGED <<links, dbDown, argsortTies, vectorizer, tfidf_matrix,
                   disease_names, everFit, harnessVars>>

Next ==
    \/ \E d \in Diseases, s \in DbNames : LinkSymptom(d, s)
    \/ CreateTables
    \/ StorageToggles
    \/ Fit
    \/ Recommend
    \/ RecommendDiseases
    \/ RecommendWithDetails
    \/ Return

Spec == Init /\ [][Next]_vars

-----------------------------------------------------------------------------
(* fit() statement by statement, on one thread, with recommend calls of     *)
(* another thread in between.  The attributes are assigned where the code   *)
(* assigns them.  Line 62 is one step: fit_transform fits the vectorizer in *)
(* place and its result is bound to tfidf_matrix; the interleavings inside  *)
(* that statement are left out.  The storage is written between fits, not  *)
(* during one: what fit() reads of it is in its local frame after line 36.  *)

\* fit() ends: its locals are gone
FitEnds(ok) ==
    /\ fitPc' = "idle"
    /\ fitFrame' = NoFrame
    /\ prior' = <<PyNone, PyNone, <<>>>>
    /\ everFit' = (everFit \/ ok)

\* line 36: matrix_dataframe = self.db.get_disease_symptom_matrix()
FitFetch ==
    /\ ret = NoCall
    /\ fitPc = "idle"
    /\ fitPc' = "fetched"
    /\ fitFrame' = get_disease_symptom_matrix
    /\ prior' = <<vectorizer, tfidf_matrix, disease_names>>
    /\ UNCHANGED <<links, dbDown, argsortTies, vectorizer, tfidf_matrix,
                   disease_names, everFit, ret, normVars, floatVars, userVars>>

\* line 39: self.disease_names = matrix_dataframe["disease"].tolist(), or
\* KeyError and the except branch
FitNames ==
    /\ ret = NoCall
    /\ fitPc = "fetched"
    /\ IF "disease" \notin fitFrame.columns
       THEN FitEnds(FALSE) /\ UNCHANGED disease_names
       ELSE /\ disease_names' = [i \in 1..Len(fitFrame.rows) |-> fitFrame.rows[i].disease]
            /\ fitPc' = "named"
            /\ UNCHANGED <<fitFrame, prior, everFit>>
    /\ UNCHANGED <<links, dbDown, argsortTies, vectorizer, tfidf_matrix, ret, normVars,
                   floatVars, userVars>>

\* lines 42-59: the documents are cleaned, self.vectorizer = TfidfVectorizer(...)
FitVectorizer ==
    /\ ret = NoCall
    /\ fitPc = "named"
    /\ vectorizer' = UnfittedVectorizer
    /\ fitPc' = "vectorizer"
    /\ UNCHANGED <<links, dbDown, argsortTies, tfidf_matrix, disease_names,
                   everFit, ret, normVars, floatVars, userVars, fitFrame, prior>>

\* line 62: self.tfidf_matrix = self.vectorizer.fit_transform(cleaned_documents),
\* or ValueError and the except branch
FitTransform ==
    /\ ret = NoCall
    /\ fitPc = "vectorizer"
    /\ LET fitted == fit_transform(cleaned_documents(fitFrame))
       IN IF fitted.raised # "none"
          THEN FitEnds(FALSE) /\ UNCHANGED <<vectorizer, tfidf_matrix>>
          ELSE /\ FitEnds(TRUE)
               /\ vectorizer' = fitted.vectorizer
               /\ tfidf_matrix' = fitted.matrix
    /\ UNCHANGED <<links, dbDown, argsortTies, disease_names, ret, normVars,
                   floatVars, userVars>>

NextConc ==
    \/ \E d \in Diseases, s \in DbNames : LinkSymptom(d, s)
    \/ CreateTables
    \/ StorageToggles
    \/ FitFetch
    \/ FitNames
    \/ FitVectorizer
    \/ FitTransform
    \/ Recommend
    \/ Return

SpecConc == Init /\ [][NextConc]_vars

-----------------------------------------------------------------------------
(* preprocess_symptoms on its own: an argument is drawn, the function is    *)
(* applied, and it is applied again, to the tokens of its result (the way   *)
(* fit() feeds it a stored document, raw.split()) or to the result itself.  *)

MaxStrLen == 2

MaxListLen == 2

NormAlphabet == {" ", "A", "b"}

\* "A  b" and "A\tb" (runs of whitespace), "a_b", "a", "_"
ExtraStrs ==
    {<<"A", " ", " ", "b">>, <<"A", "\t", "b">>, <<"a", "_", "b">>, <<"a">>, <<"_">>}

RawStrs == ExtraStrs \cup UNION {[1..k -> NormAlphabet] : k \in 0..MaxStrLen}

\* the entries of an argument: strings, None, an int
RawEntries == {PyStr(s) : s \in RawStrs} \cup {PyNone, PyInt(123)}

NormInputs == {PyList(l) : l \in UNION {[1..k -> RawEntries] : k \in 0..MaxListLen}}

InitNorm ==
    /\ links = {}
    /\ dbDown = FALSE
    /\ argsortTies = "stable"
    /\ vectorizer = PyNone
    /\ tfidf_matrix = PyNone
    /\ disease_names = <<>>
    /\ everFit = FALSE
    /\ ret = NoCall
    /\ nIn \in NormInputs
    /\ nOut = <<>>
    /\ nStage = "input"
    /\ nAlt = PyList(<<>>)
    /\ FitIdle
    /\ UserIdle
    /\ FloatIdle

Normalize ==
    /\ nStage = "input"
    /\ nOut' = <<preprocess_symptoms(nIn)>>
    /\ nStage' = "normalized"
    /\ UNCHANGED <<nIn, nAlt, recVars, fitVars, floatVars, userVars>>

\* preprocess_symptoms(result.split())
NormalizeTokens ==
    /\ nStage = "normalized"
    /\ nOut' = Append(nOut, preprocess_symptoms(PyList(
                   [j \in 1..Len(split(nOut[1])) |-> PyStr(split(nOut[1])[j])])))
    /\ nStage' = "tokens"
    /\ UNCHANGED <<nIn, nAlt, recVars, fitVars, floatVars, userVars>>

\* preprocess_symptoms(result): the loop runs over the characters of the str
NormalizeResult ==
    /\ nStage = "normalized"
    /\ nOut' = Append(nOut, preprocess_symptoms(PyStr(nOut[1])))
    /\ nStage' = "literal"
    /\ UNCHANGED <<nIn, nAlt, recVars, fitVars, floatVars, userVars>>

\* s with its leading and trailing whitespace cut, by position
Trimmed(s) ==
    LET solid == {i \in 1..Len(s) : ~IsSpace(s[i])}
    IN IF solid = {} THEN <<>>
       ELSE SubSeq(s, CHOOSE a \in solid : \A i \in solid : a <= i,
                      CHOOSE b \in solid : \A i \in solid : i <= b)

\* v and s differ only in case or in surrounding whitespace
SameUpToCaseAndPadding(v, s) ==
    LET tv == Trimmed(v)
        ts == Trimmed(s)
    IN /\ Len(tv) = Len(ts)
       /\ \A i \in 1..Len(tv) : LowerChar(tv[i]) = LowerChar(ts[i])

\* preprocess_symptoms on the entries of the argument in another order
NormalizePermuted ==
    /\ nStage = "normalized"
    /\ \E p \in [DOMAIN nIn.list -> DOMAIN nIn.list] :
          /\ \A i, j \in DOMAIN p : i # j => p[i] # p[j]
          /\ nAlt' = PyList([i \in DOMAIN nIn.list |-> nIn.list[p[i]]])
          /\ nOut' = Append(nOut, preprocess_symptoms(nAlt'))
    /\ nStage' = "permuted"
    /\ UNCHANGED <<nIn, recVars, fitVars, floatVars, userVars>>

\* preprocess_symptoms on the argument with one more entry, which repeats one
\* of its strings up to case and surrounding whitespace
NormalizeWithDuplicate ==
    /\ nStage = "normalized"
    /\ \E i \in DOMAIN nIn.list, v \in RawStrs, at \in 0..Len(nIn.list) :
          /\ isinstance_str(nIn.list[i])
          /\ SameUpToCaseAndPadding(v, nIn.list[i].str)
          /\ nAlt' = PyList(SubSeq(nIn.list, 1, at) \o <<PyStr(v)>>
                              \o SubSeq(nIn.list, at + 1, Len(nIn.list)))
          /\ nOut' = Append(nOut, preprocess_symptoms(nAlt'))
    /\ nStage' = "duplicated"
    /\ UNCHANGED <<nIn, recVars, fitVars, floatVars, userVars>>

NextNorm ==
    \/ Normalize
    \/ NormalizeTokens
    \/ NormalizeResult
    \/ NormalizePermuted
    \/ NormalizeWithDuplicate

SpecNorm == InitNorm /\ [][NextNorm]_vars

-----------------------------------------------------------------------------
(* The arithmetic of the scores.  The weights and the similarities are      *)
(* float64 values (numpy), computed by sklearn's normalize and by a sparse  *)
(* matrix product; the recommender above keeps them as exact reals, which   *)
(* orders them, and this part computes them as the machine does, rounding   *)
(* each operation to nearest, ties to even.                                 *)
(* A natural number of any size is the sequence of its limbs in base 2^15,  *)
(* least significant first, without a zero top limb.  A float64 greater     *)
(* than 0 is [m |-> a 53-bit natural, e |-> an integer], standing for       *)
(* m * 2^e; 0.0 is FlZero.                                                  *)

Base == 2 ^ 15

RECURSIVE Trim(_)
Trim(a) ==
    IF a # <<>> /\ a[Len(a)] = 0 THEN Trim(SubSeq(a, 1, Len(a) - 1)) ELSE a

Low(a) == IF a = <<>> THEN 0 ELSE Head(a)

Rest(a) == IF a = <<>> THEN <<>> ELSE Tail(a)

RECURSIVE AddCarry(_, _, _)
AddCarry(a, b, c) ==
    IF a = <<>> /\ b = <<>> THEN (IF c = 0 THEN <<>> ELSE <<c>>)
    ELSE LET x == Low(a) + Low(b) + c
         IN <<x % Base>> \o AddCarry(Rest(a), Rest(b), x \div Base)

BigAdd(a, b) == AddCarry(a, b, 0)

\* a - b for a >= b
RECURSIVE SubBorrow(_, _, _)
SubBorrow(a, b, c) ==
    IF a = <<>> THEN <<>>
    ELSE LET x == Low(a) - Low(b) - c
         IN IF x < 0 THEN <<x + Base>> \o SubBorrow(Rest(a), Rest(b), 1)
            ELSE <<x>> \o SubBorrow(Rest(a), Rest(b), 0)

BigSub(a, b) == Trim(SubBorrow(a, b, 0))

RECURSIVE BigLess(_, _)
BigLess(a, b) ==
    IF Len(a) # Len(b) THEN Len(a) < Len(b)
    ELSE IF a = <<>> THEN FALSE
    ELSE IF a[Len(a)] # b[Len(b)] THEN a[Len(a)] < b[Len(b)]
    ELSE BigLess(Trim(SubSeq(a, 1, Len(a) - 1)), Trim(SubSeq(b, 1, Len(b) - 1)))

\* a * k + c for k < Base
RECURSIVE MulSmallCarry(_, _, _)
MulSmallCarry(a, k, c) ==
    IF a = <<>> THEN (IF c = 0 THEN <<>> ELSE <<c>>)
    ELSE LET x == Head(a) * k + c
         IN <<x % Base>> \o MulSmallCarry(Tail(a), k, x \div Base)

RECURSIVE BigMul(_, _)
BigMul(a, b) ==
    IF b = <<>> THEN <<>>
    ELSE LET high == BigMul(a, Tail(b))
         IN BigAdd(Trim(MulSmallCarry(a, Head(b), 0)),
                   IF high = <<>> THEN <<>> ELSE <<0>> \o high)

\* the limbs of a \div k for 0 < k < Base, r the remainder carried down
RECURSIVE DivSmallFrom(_, _, _)
DivSmallFrom(a, k, r) ==
    IF a = <<>> THEN <<>>
    ELSE LET x == r * Base + a[Len(a)]
         IN Append(DivSmallFrom(SubSeq(a, 1, Len(a) - 1), k, x % k), x \div k)

\* a * 2^n
ShiftLeft(a, n) ==
    IF a = <<>> THEN <<>>
    ELSE [i \in 1..(n \div 15) |-> 0] \o MulSmallCarry(a, 2 ^ (n % 15), 0)

\* a \div 2^n
ShiftRight(a, n) ==
    IF n \div 15 >= Len(a) THEN <<>>
    ELSE Trim(DivSmallFrom(SubSeq(a, n \div 15 + 1, Len(a)), 2 ^ (n % 15), 0))

\* the number of bits of a
BitLen(a) ==
    IF a = <<>> THEN 0
    ELSE 15 * (Len(a) - 1)
            + (CHOOSE k \in 1..15 : 2 ^ (k - 1) <= a[Len(a)] /\ a[Len(a)] < 2 ^ k)

\* bit i of a, bit 0 the least significant
Bit(a, i) ==
    IF i \div 15 + 1 > Len(a) THEN 0
    ELSE (a[i \div 15 + 1] \div (2 ^ (i % 15))) % 2

FlZero == [m |-> <<>>, e |-> 0]

\* 1.0 = 2^52 * 2^-52
FlOne == [m |-> ShiftLeft(<<1>>, 52), e |-> 0 - 52]

\* The float64 nearest to N * 2^e (N > 0), ties to even.  inexact: N is the
\* floor of a value that is not an integer.
fl_round(N, e, inexact) ==
    LET len == BitLen(N)
    IN IF len <= 53 THEN [m |-> ShiftLeft(N, 53 - len), e |-> e - (53 - len)]
       ELSE LET shift == len - 53
                q == ShiftRight(N, shift)
                rem == BigSub(N, ShiftLeft(q, shift))
                half == ShiftLeft(<<1>>, shift - 1)
                up == \/ BigLess(half, rem)
                      \/ rem = half /\ (inexact \/ Bit(q, 0) = 1)
                q1 == IF up THEN BigAdd(q, <<1>>) ELSE q
            IN IF BitLen(q1) = 54 THEN [m |-> ShiftRight(q1, 1), e |-> e + shift + 1]
               ELSE [m |-> q1, e |-> e + shift]

fl_mul(a, b) ==
    IF a = FlZero \/ b = FlZero THEN FlZero
    ELSE fl_round(BigMul(a.m, b.m), a.e + b.e, FALSE)

fl_add(a, b) ==
    IF a = FlZero THEN b
    ELSE IF b = FlZero THEN a
    ELSE LET emin == IF a.e < b.e THEN a.e ELSE b.e
         IN fl_round(BigAdd(ShiftLeft(a.m, a.e - emin), ShiftLeft(b.m, b.e - emin)),
                     emin, FALSE)

\* steps more bits of a quotient by d: st holds the quotient q and the
\* remainder r so far
RECURSIVE DivBits(_, _, _)
DivBits(st, d, steps) ==
    IF steps = 0 THEN st
    ELSE LET r2 == BigAdd(st.r, st.r)
             q2 == BigAdd(st.q, st.q)
         IN IF BigLess(r2, d) THEN DivBits([q |-> q2, r |-> r2], d, steps - 1)
            ELSE DivBits([q |-> BigAdd(q2, <<1>>), r |-> BigSub(r2, d)], d, steps - 1)

\* a / b for b > 0: the quotient of a.m * 2^56 by b.m, 56 or 57 bits, rounded
fl_div(a, b) ==
    IF a = FlZero THEN FlZero
    ELSE LET whole == ~BigLess(a.m, b.m)
             qr == DivBits([q |-> IF whole THEN <<1>> ELSE <<>>,
                            r |-> IF whole THEN BigSub(a.m, b.m) ELSE a.m], b.m, 56)
         IN fl_round(qr.q, a.e - b.e - 56, qr.r # <<>>)

\* the integer square root of R and what is left, two bits of R at a time
RECURSIVE SqrtBits(_, _, _, _)
SqrtBits(R, pairs, rem, root) ==
    IF pairs = 0 THEN [root |-> root, rem |-> rem]
    ELSE LET two == 2 * Bit(R, 2 * pairs - 1) + Bit(R, 2 * pairs - 2)
             rem4 == BigAdd(ShiftLeft(rem, 2), IF two = 0 THEN <<>> ELSE <<two>>)
             trial == BigAdd(ShiftLeft(root, 2), <<1>>)
         IN IF BigLess(rem4, trial)
            THEN SqrtBits(R, pairs - 1, rem4, ShiftLeft(root, 1))
            ELSE SqrtBits(R, pairs - 1, BigSub(rem4, trial),
                          BigAdd(ShiftLeft(root, 1), <<1>>))

\* sqrt(a): the integer square root of a.m * 2^s, 55 bits, rounded; s is 56
\* or 57, whichever leaves an even exponent
fl_sqrt(a) ==
    IF a = FlZero THEN FlZero
    ELSE LET s == IF a.e % 2 = 0 THEN 56 ELSE 57
             R == ShiftLeft(a.m, s)
             sr == SqrtBits(R, (BitLen(R) + 1) \div 2, <<>>, <<>>)
         IN fl_round(sr.root, (a.e - s) \div 2, sr.rem # <<>>)

fl_less(a, b) ==
    IF b = FlZero THEN FALSE
    ELSE IF a = FlZero THEN TRUE
    ELSE IF a.e # b.e THEN a.e < b.e
    ELSE BigLess(a.m, b.m)

\* idf = np.log((1 + n) / (1 + df)) + 1 as a float64, the logarithm rounded
\* to nearest; ln(1) is 0.0 and the idf 1.0 when every document has the term
IdfDouble(n, df) ==
    CASE df = n -> FlOne
      [] n = 2 /\ df = 1 -> [m |-> <<26131, 30303, 29475, 179>>, e |-> 0 - 52]   \* 1.4054651081081644
      [] n = 3 /\ df = 1 -> [m |-> <<7416, 32506, 23685, 216>>, e |-> 0 - 52]   \* 1.6931471805599454
      [] n = 3 /\ df = 2 -> [m |-> <<14052, 2202, 26978, 164>>, e |-> 0 - 52]   \* 1.2876820724517808
      [] n = 4 /\ df = 1 -> [m |-> <<28732, 28896, 9345, 245>>, e |-> 0 - 52]   \* 1.916290731874155
      [] n = 4 /\ df = 2 -> [m |-> <<2601, 31361, 12637, 193>>, e |-> 0 - 52]   \* 1.5108256237659907
      [] n = 4 /\ df = 3 -> [m |-> <<21316, 29158, 18427, 156>>, e |-> 0 - 52]   \* 1.2231435513142097

\* A sparse row: its stored entries [col, val] in ascending column order.

\* sparsefuncs_fast.inplace_csr_row_normalize_l2: sum += x * x over the
\* entries, nothing more when the sum is 0.0, else x /= sqrt(sum)
RECURSIVE sum_of_squares(_, _)
sum_of_squares(data, acc) ==
    IF data = <<>> THEN acc
    ELSE sum_of_squares(Tail(data),
                        fl_add(acc, fl_mul(Head(data).val, Head(data).val)))

inplace_csr_row_normalize_l2(data) ==
    LET sum == sum_of_squares(data, FlZero)
    IN IF sum = FlZero THEN data
       ELSE [j \in 1..Len(data) |->
               [col |-> data[j].col, val |-> fl_div(data[j].val, fl_sqrt(sum))]]

\* TfidfTransformer.transform on counts of 1: tf = np.log(1) + 1 = 1.0
\* (sublinear_tf), times the idf of the column, then the l2 normalisation
tfidf_transform(n, terms, cols) ==
    inplace_csr_row_normalize_l2(
        [j \in 1..Len(cols) |->
            [col |-> cols[j], val |-> fl_mul(FlOne, IdfDouble(n, terms[cols[j]].df))]])

\* safe_sparse_dot of two rows: the products of the entries of the columns
\* both store, added in column order
RECURSIVE sparse_dot(_, _, _)
sparse_dot(x, y, acc) ==
    IF x = <<>> THEN acc
    ELSE LET same == {j \in 1..Len(y) : y[j].col = Head(x).col}
         IN sparse_dot(Tail(x), y,
                       IF same = {} THEN acc
                       ELSE fl_add(acc, fl_mul(Head(x).val,
                                               y[CHOOSE j \in same : TRUE].val)))

\* sklearn.metrics.pairwise.cosine_similarity: both rows are normalized
\* (again), then multiplied
cosine_similarity(X, Y) ==
    sparse_dot(inplace_csr_row_normalize_l2(X), inplace_csr_row_normalize_l2(Y), FlZero)

MaxDocs == 2

MaxTerms == 3

\* a column of the vocabulary: the number of documents with the term, and
\* whether the row and the query have it; a term the row is without is in
\* the vocabulary by another document
FloatTerms(n) ==
    {t \in [df : 1..n, inRow : BOOLEAN, inQuery : BOOLEAN] :
        /\ t.inRow \/ t.inQuery
        /\ ~t.inRow => t.df < n}

FloatInputs ==
    {c \in UNION {[n : {n}, terms : UNION {[1..k -> FloatTerms(n)] : k \in 1..MaxTerms}]
                    : n \in 1..MaxDocs} :
        \E j \in 1..Len(c.terms) : c.terms[j].inRow}

\* the columns, in ascending order, of the terms on which P holds
RECURSIVE ColumnsFrom(_, _, _)
ColumnsFrom(terms, j, inRow) ==
    IF j > Len(terms) THEN <<>>
    ELSE (IF (inRow /\ terms[j].inRow) \/ (~inRow /\ terms[j].inQuery)
          THEN <<j>> ELSE <<>>) \o ColumnsFrom(terms, j + 1, inRow)

InitFloat ==
    /\ links = {}
    /\ dbDown = FALSE
    /\ argsortTies = "stable"
    /\ vectorizer = PyNone
    /\ tfidf_matrix = PyNone
    /\ disease_names = <<>>
    /\ everFit = FALSE
    /\ ret = NoCall
    /\ NormIdle
    /\ FitIdle
    /\ UserIdle
    /\ fIn \in FloatInputs
    /\ fRow = <<>>
    /\ fQuery = <<>>
    /\ fScore = FlZero
    /\ fStage = "input"

\* line 62: the disease's row of fit_transform(cleaned_documents)
FloatFitTransform ==
    /\ fStage = "input"
    /\ fRow' = tfidf_transform(fIn.n, fIn.terms, ColumnsFrom(fIn.terms, 1, TRUE))
    /\ fStage' = "fitted"
    /\ UNCHANGED <<fIn, fQuery, fScore, recVars, normVars, fitVars, userVars>>

\* line 93: user_vector = self.vectorizer.transform([user_document])
FloatTransform ==
    /\ fStage = "fitted"
    /\ fQuery' = tfidf_transform(fIn.n, fIn.terms, ColumnsFrom(fIn.terms, 1, FALSE))
    /\ fStage' = "query"
    /\ UNCHANGED <<fIn, fRow, fScore, recVars, normVars, fitVars, userVars>>

\* line 96: cosine_similarity(user_vector, self.tfidf_matrix)[0], the entry
\* of the disease
FloatCosine ==
    /\ fStage = "query"
    /\ fScore' = cosine_similarity(fQuery, fRow)
    /\ fStage' = "scored"
    /\ UNCHANGED <<fIn, fRow, fQuery, recVars, normVars, fitVars, userVars>>

NextFloat == FloatFitTransform \/ FloatTransform \/ FloatCosine

SpecFloat == InitFloat /\ [][NextFloat]_vars

-----------------------------------------------------------------------------
(* The users table (models/database.py) and the models over it              *)
(* (models/user.py, models/admin.py).  A row of users is a record with the  *)
(* columns id, name, email, password, gender and role.  Each helper gives   *)
(* the value it returns and the table it leaves: a helper whose statement   *)
(* raises (the storage is down, a constraint fails) prints, returns its     *)
(* default and leaves the table as it was.                                  *)

MaxUserId == 3

Emails == {"a@x.io", "b@x.io"}

Names == {"Al", "Bo"}

Passwords == {"pw", "pw2"}

\* CHECK(gender IN ('Male', 'Female', 'Other'))
Genders == {"Male", "Female", "Other"}

\* CHECK(role IN ('User', 'Admin'))
Roles == {"User", "Admin"}

\* bcrypt.hashpw(password, bcrypt.gensalt()): a hash that checkpw accepts for
\* this password and no other
hashpw(password) == [bcrypt |-> password]

checkpw(password, stored_hash) == stored_hash = hashpw(password)

DbResult(value, rows, next) == [value |-> value, users |-> rows, nextUserId |-> next]

\* the helper's statement raised, or changed no row
DbUnchanged(value) == DbResult(value, users, nextUserId)

RowsWithEmail(email) == {row \in users : row.email = email}

RowsWithId(user_id) == {row \in users : row.id = user_id}

\* the mutant of add_user: the email column without UNIQUE
add_user_without_unique(name, email, hashed_password, gender, role) ==
    IF dbDown \/ gender \notin Genders \/ role \notin Roles
    THEN DbUnchanged(FALSE)
    ELSE DbResult(TRUE,
                  users \cup {[id |-> nextUserId, name |-> name, email |-> email,
                               password |-> hashed_password, gender |-> gender,
                               role |-> role]},
                  nextUserId + 1)

\* INSERT INTO users: the UNIQUE and CHECK constraints raise IntegrityError
add_user(name, email, hashed_password, gender, role) ==
    IF \/ dbDown
       \/ RowsWithEmail(email) # {}
       \/ gender \notin Genders
       \/ role \notin Roles
    THEN DbUnchanged(FALSE)
    ELSE DbResult(TRUE,
                  users \cup {[id |-> nextUserId, name |-> name, email |-> email,
                               password |-> hashed_password, gender |-> gender,
                               role |-> role]},
                  nextUserId + 1)

\* SELECT * FROM users WHERE email = ?: the row, or None
get_user_by_email(email) ==
    IF dbDown \/ RowsWithEmail(email) = {} THEN PyNone
    ELSE CHOOSE row \in RowsWithEmail(email) : TRUE

email_exists(email) == ~dbDown /\ RowsWithEmail(email) # {}

get_user_by_id(user_id) ==
    IF dbDown \/ RowsWithId(user_id) = {} THEN PyNone
    ELSE CHOOSE row \in RowsWithId(user_id) : TRUE

\* UPDATE users SET name = ?, gender = ? WHERE id = ?; rowcount > 0
update_user(user_id, name, gender) ==
    IF dbDown \/ gender \notin Genders \/ RowsWithId(user_id) = {}
    THEN DbUnchanged(FALSE)
    ELSE DbResult(TRUE,
                  {IF row.id = user_id
                   THEN [row EXCEPT !.name = name, !.gender = gender]
                   ELSE row : row \in users},
                  nextUserId)

\* DELETE FROM users WHERE id = ?; rowcount > 0
delete_user_by_id(user_id) ==
    IF dbDown \/ RowsWithId(user_id) = {} THEN DbUnchanged(FALSE)
    ELSE DbResult(TRUE, users \ RowsWithId(user_id), nextUserId)

\* UPDATE users SET role = ? WHERE id = ?; rowcount > 0
set_user_role(user_id, role) ==
    IF dbDown \/ role \notin Roles \/ RowsWithId(user_id) = {}
    THEN DbUnchanged(FALSE)
    ELSE DbResult(TRUE,
                  {IF row.id = user_id THEN [row EXCEPT !.role = role] ELSE row :
                      row \in users},
                  nextUserId)

\* models/user.py: UserModel.register_user
register_user(name, email, password, gender, role) ==
    IF email_exists(email) THEN DbUnchanged(FALSE)
    ELSE add_user(name, email, hashpw(password), gender, role)

\* the User object of a row
UserOf(record) ==
    [name |-> record.name, email |-> record.email, gender |-> record.gender,
     role |-> record.role]

\* models/user.py: UserModel.authenticate_user: the User, or None.  A stored
\* password that is no bcrypt hash makes checkpw raise, which gives None.
authenticate_user(email, password) ==
    LET record == get_user_by_email(email)
    IN IF record # PyNone /\ checkpw(password, record.password)
       THEN UserOf(record)
       ELSE PyNone

\* the mutant of promote_to_admin: the role is set whatever it was
promote_to_admin_any_role(email) ==
    LET user == get_user_by_email(email)
    IN IF user # PyNone THEN set_user_role(user.id, "Admin")
       ELSE DbUnchanged(FALSE)

\* models/admin.py: AdminModel.promote_to_admin
promote_to_admin(email) ==
    LET user == get_user_by_email(email)
    IN IF user # PyNone /\ user.role # "Admin"
       THEN set_user_role(user.id, "Admin")
       ELSE DbUnchanged(FALSE)

\* models/admin.py: AdminModel.demote_to_user
demote_to_user(email) ==
    LET user == get_user_by_email(email)
    IN IF user # PyNone /\ user.role = "Admin"
       THEN set_user_role(user.id, "User")
       ELSE DbUnchanged(FALSE)

-----------------------------------------------------------------------------
(* The operations on the users table, called one after the other: the       *)
(* helpers of Database, the methods of UserModel and AdminModel, and the    *)
(* construction of a UserController over the database.                      *)

InitUser ==
    /\ links = {}
    /\ dbDown = FALSE
    /\ argsortTies = "stable"
    /\ vectorizer = PyNone
    /\ tfidf_matrix = PyNone
    /\ disease_names = <<>>
    /\ everFit = FALSE
    /\ ret = NoCall
    /\ NormIdle
    /\ FitIdle
    /\ UserIdle
    /\ FloatIdle

\* what an operation on the users table leaves alone
userFrame == <<recVars, normVars, fitVars, floatVars, session, cRet>>

\* the table is left as the helper leaves it
Stored(result) ==
    /\ users' = result.users
    /\ nextUserId' = result.nextUserId

\* what add_user is called with as role: a value outside the CHECK too
RoleArgs == Roles \cup {"Superuser"}

AddUser ==
    /\ uRet = NoCall
    /\ nextUserId <= MaxUserId
    /\ \E name \in Names, email \in Emails, password \in Passwords, role \in RoleArgs :
          LET result == add_user(name, email, hashpw(password), "Other", role)
          IN /\ Stored(result)
             /\ uRet' = [op |-> "add_user", name |-> name, email |-> email,
                         password |-> hashpw(password), value |-> result.value]
    /\ UNCHANGED userFrame

RegisterUser ==
    /\ uRet = NoCall
    /\ nextUserId <= MaxUserId
    /\ \E name \in Names, email \in Emails, password \in Passwords :
          LET result == register_user(name, email, password, "Other", "User")
          IN /\ Stored(result)
             /\ uRet' = [op |-> "register_user", name |-> name, email |-> email,
                         password |-> hashpw(password), value |-> result.value]
    /\ UNCHANGED userFrame

UpdateUser ==
    /\ uRet = NoCall
    /\ \E user_id \in 1..MaxUserId, name \in Names :
          LET result == update_user(user_id, name, "Other")
          IN /\ Stored(result)
             /\ uRet' = [op |-> "update_user", user_id |-> user_id, name |-> name,
                         value |-> result.value]
    /\ UNCHANGED userFrame

DeleteUserById ==
    /\ uRet = NoCall
    /\ \E user_id \in 1..MaxUserId :
          LET result == delete_user_by_id(user_id)
          IN /\ Stored(result)
             /\ uRet' = [op |-> "delete_user_by_id", user_id |-> user_id,
                         value |-> result.value]
    /\ UNCHANGED userFrame

PromoteToAdmin ==
    /\ uRet = NoCall
    /\ \E email \in Emails :
          LET result == promote_to_admin(email)
          IN /\ Stored(result)
             /\ uRet' = [op |-> "promote_to_admin", email |-> email,
                         value |-> result.value]
    /\ UNCHANGED userFrame

DemoteToUser ==
    /\ uRet = NoCall
    /\ \E email \in Emails :
          LET result == demote_to_user(email)
          IN /\ Stored(result)
             /\ uRet' = [op |-> "demote_to_user", email |-> email,
                         value |-> result.value]
    /\ UNCHANGED userFrame

\* UserController(db): self.db.create_tables(), then the UserModel
NewUserController ==
    /\ uRet = NoCall
    /\ create_tables
    /\ uRet' = [op |-> "UserController"]
    /\ UNCHANGED <<dbDown, argsortTies, vectorizer, tfidf_matrix, disease_names,
                   everFit, ret, normVars, fitVars, floatVars, session, cRet>>

\* the caller takes the outcome
UserReturn ==
    /\ uRet # NoCall
    /\ uRet' = NoCall
    /\ UNCHANGED <<users, nextUserId, userFrame>>

NextUser ==
    \/ AddUser
    \/ RegisterUser
    \/ UpdateUser
    \/ DeleteUserById
    \/ PromoteToAdmin
    \/ DemoteToUser
    \/ NewUserController
    \/ UserReturn

SpecUser == InitUser /\ [][NextUser]_vars

-----------------------------------------------------------------------------
(* One browser session of the Streamlit application (app.py, views/).  A    *)
(* click runs the button's on_click callback and marks the script for a     *)
(* run; a run of main() draws the page of current_page.  A button can be    *)
(* clicked when the last run drew it.  The pages are login, main,           *)
(* symptom_checker, profile and admin_dashboard; of the forms of a page only *)
(* the login form and the user-management buttons are modelled.  The other  *)
(* operations on the table stand for the other sessions.                    *)

\* raw_role.strip().lower(), for the values the CHECK on role lets in
role_key(raw_role) ==
    IF raw_role = "Admin" THEN "admin"
    ELSE IF raw_role = "User" THEN "user"
    ELSE raw_role

\* views/common_view.py: render_sidebar.  The session after it, with the
\* buttons it drew.
render_sidebar(state) ==
    IF state.user = PyNone THEN state
    ELSE LET record == get_user_by_email(state.user.email)
             raw_role == IF record # PyNone THEN record.role ELSE "User"
         IN [state EXCEPT
               !.user = [state.user EXCEPT !.role = raw_role],
               !.exposed = {<<"navigate", "main">>, <<"navigate", "symptom_checker">>,
                            <<"navigate", "profile">>, <<"logout", "login">>}
                           \cup (IF role_key(raw_role) = "admin"
                                 THEN {<<"navigate", "admin_dashboard">>} ELSE {})]

\* the buttons of the User Management tab, one expander per user
management_buttons ==
    UNION {{<<(IF role_key(row.role) = "user" THEN "promote" ELSE "demote"), row.email>>,
            <<"delete", row.email>>} : row \in (IF dbDown THEN {} ELSE users)}

\* the mutant of show_admin_dashboard_view: the role of the session's User
\* object as it was before the run, not the stored one, is looked at
show_admin_dashboard_view_session_role(state) ==
    LET drawn == render_sidebar(state)
    IN IF state.user.role # "Admin"
       THEN [drawn EXCEPT !.current_page = "main"]
       ELSE [drawn EXCEPT !.exposed = drawn.exposed \cup management_buttons]

\* views/admin_view.py: show_admin_dashboard_view
show_admin_dashboard_view(state) ==
    LET drawn == render_sidebar(state)
        record == get_user_by_email(state.user.email)
        db_role == IF record # PyNone THEN record.role ELSE ""
    IN IF role_key(db_role) # "admin"
       THEN [drawn EXCEPT !.current_page = "main"]
       ELSE [drawn EXCEPT !.exposed = drawn.exposed \cup management_buttons]

\* views/user_view.py: show_profile_view, up to its forms
show_profile_view(state) ==
    LET drawn == render_sidebar(state)
    IN IF get_user_by_email(state.user.email) = PyNone
       THEN [drawn EXCEPT !.current_page = "login"]
       ELSE drawn

\* app.py: main, from the routing on.  A page other than login run without
\* a user draws no button (admin_dashboard and profile raise AttributeError).
route(state) ==
    LET page == state.current_page
        blank == [state EXCEPT !.exposed = {}]
    IN IF page = "login" THEN [blank EXCEPT !.exposed = {<<"login", "login">>}]
       ELSE IF state.user = PyNone THEN blank
       ELSE IF page = "admin_dashboard" THEN show_admin_dashboard_view(blank)
       ELSE IF page = "profile" THEN show_profile_view(blank)
       ELSE render_sidebar(blank)

\* views/login_view.py: on_login, for a well-formed email and a password
on_login(state, email, password) ==
    LET user == authenticate_user(email, password)
        record == get_user_by_email(email)
    IN IF user = PyNone THEN state
       ELSE [state EXCEPT
               !.user = IF record # PyNone THEN [user EXCEPT !.role = record.role]
                        ELSE user,
               !.user_id = IF record # PyNone THEN PyInt(record.id) ELSE state.user_id,
               !.current_page = "main"]

sessionFrame == <<recVars, normVars, fitVars, floatVars, cRet>>

\* A run of main().  The first run of a session puts the controllers in
\* st.session_state: UserController(db) calls create_tables (app.py:98, and
\* again login_view.py:28), and current_page becomes login.
Run ==
    /\ uRet = NoCall
    /\ session.rerun
    /\ IF ~session.controllers
       THEN /\ create_tables
            /\ session' = [route([session EXCEPT !.current_page = "login"])
                             EXCEPT !.controllers = TRUE, !.rerun = FALSE]
            /\ uRet' = [op |-> "run", page |-> "login"]
            /\ UNCHANGED <<dbDown, argsortTies, vectorizer, tfidf_matrix,
                           disease_names, everFit, ret>>
       ELSE /\ session' = [route(session) EXCEPT !.rerun = FALSE]
            /\ uRet' = [op |-> "run", page |-> session.current_page]
            /\ UNCHANGED <<users, nextUserId, recVars>>
    /\ UNCHANGED <<normVars, fitVars, floatVars, cRet>>

\* a click on a button the last run drew
Clicked(button) ==
    /\ uRet = NoCall
    /\ ~session.rerun
    /\ button \in session.exposed

\* the Login button of the form: on_login
Login ==
    /\ Clicked(<<"login", "login">>)
    /\ \E email \in Emails, password \in Passwords :
          /\ session' = [on_login(session, email, password) EXCEPT !.rerun = TRUE]
          /\ uRet' = [op |-> "login", email |-> email,
                      value |-> authenticate_user(email, password) # PyNone]
    /\ UNCHANGED <<users, nextUserId, sessionFrame>>

\* a navigation button of the sidebar: navigate_to(page)
Navigate ==
    /\ \E page \in {"main", "symptom_checker", "profile", "admin_dashboard"} :
          /\ Clicked(<<"navigate", page>>)
          /\ session' = [session EXCEPT !.current_page = page, !.rerun = TRUE]
          /\ uRet' = [op |-> "navigate", page |-> page]
    /\ UNCHANGED <<users, nextUserId, sessionFrame>>

\* the Logout button of the sidebar: on_click=navigate_to, args=("login",)
Logout ==
    /\ Clicked(<<"logout", "login">>)
    /\ session' = [session EXCEPT !.current_page = "login", !.rerun = TRUE]
    /\ uRet' = [op |-> "logout"]
    /\ UNCHANGED <<users, nextUserId, sessionFrame>>

\* views/admin_view.py: _promote
ClickPromote ==
    /\ \E email \in Emails :
          /\ Clicked(<<"promote", email>>)
          /\ Stored(promote_to_admin(email))
          /\ uRet' = [op |-> "promote", email |-> email,
                      value |-> promote_to_admin(email).value]
    /\ session' = [session EXCEPT !.rerun = TRUE]
    /\ UNCHANGED sessionFrame

\* views/admin_view.py: _demote, which navigates to main after a demotion of
\* the user of the session
ClickDemote ==
    /\ \E email \in Emails :
          /\ Clicked(<<"demote", email>>)
          /\ Stored(demote_to_user(email))
          /\ uRet' = [op |-> "demote", email |-> email,
                      value |-> demote_to_user(email).value]
          /\ session' = [session EXCEPT
                           !.rerun = TRUE,
                           !.current_page =
                               IF demote_to_user(email).value /\ email = session.user.email
                               THEN "main" ELSE @]
    /\ UNCHANGED sessionFrame

\* views/admin_view.py: _delete_user, the confirmation box ticked
ClickDelete ==
    /\ \E email \in Emails :
          LET rec == get_user_by_email(email)
              result == IF rec # PyNone THEN delete_user_by_id(rec.id)
                        ELSE DbUnchanged(FALSE)
          IN /\ Clicked(<<"delete", email>>)
             /\ Stored(result)
             /\ uRet' = [op |-> "delete", email |-> email, value |-> result.value]
    /\ session' = [session EXCEPT !.rerun = TRUE]
    /\ UNCHANGED sessionFrame

NextSession ==
    \/ Run
    \/ Login
    \/ Navigate
    \/ Logout
    \/ ClickPromote
    \/ ClickDemote
    \/ ClickDelete
    \/ AddUser
    \/ PromoteToAdmin
    \/ DemoteToUser
    \/ DeleteUserById
    \/ UserReturn

SpecSession == InitUser /\ [][NextSession]_vars

-----------------------------------------------------------------------------
(* The controllers.  Every public method that makes a call is               *)
(*     try: return <the call>   except Exception: print(...); return <f>    *)
(* and is modelled by the outcome of its call, which is whatever a model or *)
(* a mock gives: a return value or an exception.  logout_user makes no call *)
(* and is left out.                                                         *)

PyBool(b) == [bool |-> b]

\* controllers/admin_controller.py: the value each except branch returns
AdminControllerFailure ==
    [list_users |-> PyList(<<>>), promote_user |-> PyBool(FALSE),
     demote_user |-> PyBool(FALSE), delete_user |-> PyBool(FALSE)]

\* controllers/user_controller.py
UserControllerFailure ==
    [register_user |-> PyBool(FALSE), login_user |-> PyNone, get_profile |-> PyNone,
     update_profile |-> PyBool(FALSE), change_password |-> PyBool(FALSE),
     delete_account |-> PyBool(FALSE)]

\* controllers/symptom_controller.py
SymptomControllerFailure ==
    [list_all_symptoms |-> PyList(<<>>), get_symptoms_for_disease |-> PyList(<<>>),
     get_diseases_for_symptom |-> PyList(<<>>), get_precautions |-> PyNone,
     get_description |-> PyNone, get_severity |-> PyNone]

\* controllers/analytics_controller.py: pd.DataFrame()
AnalyticsControllerFailure ==
    [disease_prevalence |-> NoFrame, symptom_prevalence |-> NoFrame,
     symptom_frequency |-> NoFrame, severity_distribution |-> NoFrame,
     symptom_disease_matrix |-> NoFrame, severity_mapping |-> NoFrame]

Controllers ==
    [AdminController |-> AdminControllerFailure,
     UserController |-> UserControllerFailure,
     SymptomController |-> SymptomControllerFailure,
     AnalyticsController |-> AnalyticsControllerFailure]

\* what the call inside a method does: it raises, or returns a value
CallOutcomes ==
    {[raised |-> "Exception"], [raised |-> "sqlite3.OperationalError"]} \cup
    {Returned(v) : v \in {PyBool(TRUE), PyBool(FALSE), PyNone, PyList(<<>>),
                          PyList(<<PyStr(<<"B">>)>>), NoFrame,
                          [columns |-> {"Disease", "Symptom Count"}, rows |-> <<>>]}}

\* the mutant of try_return: "except RuntimeError" for "except Exception"
try_return_runtime_only(outcome, failure) ==
    IF outcome.raised = "RuntimeError" THEN Returned(failure) ELSE outcome

\* try: return <call>  except Exception: return <failure>
try_return(outcome, failure) ==
    IF outcome.raised # "none" THEN Returned(failure) ELSE outcome

ControllerCall ==
    \E controller \in DOMAIN Controllers :
       \E method \in DOMAIN Controllers[controller], outcome \in CallOutcomes :
          /\ cRet' = [controller |-> controller, method |-> method, call |-> outcome,
                      result |-> try_return(outcome, Controllers[controller][method])]
          /\ UNCHANGED <<recVars, normVars, fitVars, floatVars, users, nextUserId,
                         session, uRet>>

NextCtrl == ControllerCall

SpecCtrl == InitUser /\ [][NextCtrl]_vars

-----------------------------------------------------------------------------
(* Properties *)

IsListCall(op) ==
    /\ ret.op = op
    /\ isinstance_list(ret.selected_symptoms)

\* the rows of the index the last successful fit() built
IndexedCount == IF tfidf_matrix = PyNone THEN 0 ELSE Len(tfidf_matrix.rows)

\* fit() run now would succeed and rebuild exactly the index the model holds
IndexIsCurrent ==
    /\ fit_outcome.ok
    /\ fit_outcome.vectorizer = vectorizer
    /\ fit_outcome.tfidf_matrix = tfidf_matrix
    /\ fit_outcome.disease_names = disease_names

\* C1: on a model on which no fit() has completed successfully, recommend
\* called with a list raises RuntimeError; it returns no list.
C1_UnfitRecommendRaises ==
    (IsListCall("recommend") /\ ~everFit) => ret.raised = "RuntimeError"

\* C1 witness: recommend was called with a list after a fit() that failed
\* and left an unfitted vectorizer behind.
C1_Witness ==
    /\ IsListCall("recommend")
    /\ ~everFit
    /\ vectorizer = UnfittedVectorizer
    /\ ret.raised = "RuntimeError"

\* C2: a fit() call that fails, at whichever step, leaves vectorizer,
\* tfidf_matrix and disease_names exactly as they were before the call.
C2_FailedFitKeepsIndex ==
    [][(ret'.op = "fit" /\ ~ret'.ok) =>
        UNCHANGED <<vectorizer, tfidf_matrix, disease_names>>]_vars

\* C3: recommend_diseases never raises; it returns [] whenever
\* model.recommend raises for the same arguments, and otherwise the list
\* model.recommend returns for them.
C3_RecommendDiseasesFailSoft ==
    ret.op = "recommend_diseases" =>
        LET r == recommend(ret.selected_symptoms, ret.top_n)
        IN /\ ret.raised = "none"
           /\ r.raised # "none" => ret.value = <<>>
           /\ r.raised = "none" => ret.value = r.value

\* C3 witness: recommend_diseases was called with None, for which
\* model.recommend raises TypeError, on a model that passes the fit gate.
C3_Witness ==
    /\ ret.op = "recommend_diseases"
    /\ ret.selected_symptoms = PyNone
    /\ ~not_fit
    /\ ret.value = <<>>

\* C4: when the storage lookups fail for the ranked diseases,
\* recommend_with_details returns the empty list: no entry with placeholder
\* symptoms or precautions.
C4_DetailsAllOrNothing ==
    (/\ IsListCall("recommend_with_details")
     /\ dbDown
     /\ recommend(ret.selected_symptoms, ret.top_n).value # <<>>)
    => (ret.raised = "none" /\ ret.value = <<>>)

\* C5: on a model that has been fitted, indexing N diseases, recommend with
\* top_n >= 1 returns exactly min(top_n, N) pairs, each naming a distinct
\* indexed disease.
C5_TopNCount ==
    (IsListCall("recommend") /\ everFit /\ ret.top_n >= 1) =>
        /\ ret.raised = "none"
        /\ Len(ret.value) =
              (IF ret.top_n < IndexedCount THEN ret.top_n ELSE IndexedCount)
        /\ \A k, l \in 1..Len(ret.value) : k # l => ret.value[k][1] # ret.value[l][1]
        /\ \A k \in 1..Len(ret.value) : ret.value[k][1] \in Range(disease_names)

\* C6: the list recommend returns is sorted by score in non-increasing
\* order, and no indexed disease left out scores more than a returned one.
C6_SortedByScore ==
    (IsListCall("recommend") /\ ret.raised = "none") =>
        LET value == ret.value
            scores == similarity_scores(preprocess_symptoms(ret.selected_symptoms))
        IN /\ \A k \in 1..(Len(value) - 1) :
                  ~ScoreLess(value[k][2], value[k + 1][2])
           /\ \A k \in 1..Len(value) : \A i \in 1..Len(disease_names) :
                  (\A l \in 1..Len(value) : value[l][1] # disease_names[i])
                      => ~ScoreLess(value[k][2], scores[i])

\* C6 witness: two diseases with different scores are indexed and recommend
\* returned one of them.
C6_Witness ==
    /\ IsListCall("recommend")
    /\ ret.raised = "none"
    /\ Len(ret.value) = 1
    /\ Len(disease_names) = 2
    /\ LET scores == similarity_scores(preprocess_symptoms(ret.selected_symptoms))
       IN ScoreLess(scores[1], scores[2]) /\ ~ScoreIsZero(scores[1])

\* C7: diseases with equal scores are returned in their row order, the
\* earlier row first.
C7_TiesEarlierRowFirst ==
    (IsListCall("recommend") /\ ret.raised = "none") =>
        \A k, l \in 1..Len(ret.value) :
            (k < l /\ ScoreEq(ret.value[k][2], ret.value[l][2]))
                => \E i, j \in 1..Len(disease_names) :
                      /\ i < j
                      /\ disease_names[i] = ret.value[k][1]
                      /\ disease_names[j] = ret.value[l][1]

\* C8: for every stored symptom name s linked to disease d, the tokens fit()
\* puts into d's document for s are the tokens recommend derives from the
\* query [s], and querying [s] gives d a non-zero score.
C8_StoredNameMatchesItself ==
    (/\ IsListCall("recommend")
     /\ IndexIsCurrent
     /\ ret.top_n >= Len(disease_names)
     /\ Len(ret.selected_symptoms.list) = 1
     /\ isinstance_str(ret.selected_symptoms.list[1]))
    => \A d \in Diseases :
          LET s == ret.selected_symptoms.list[1].str
              inDocument == analyze(preprocess_symptoms(PyList(
                  [j \in 1..Len(split(s)) |-> PyStr(split(s)[j])])))
              inQuery == analyze(preprocess_symptoms(PyList(<<PyStr(s)>>)))
          IN <<d, s>> \in links =>
                /\ Range(inDocument) = Range(inQuery)
                /\ \E k \in 1..Len(ret.value) :
                      ret.value[k][1] = d /\ ~ScoreIsZero(ret.value[k][2])

\* C9, as amended: applying preprocess_symptoms to the tokens of its result
\* (the result split on whitespace) yields that same result.
C9_IdempotentOnTokens ==
    nStage = "tokens" => nOut[2] = nOut[1]

\* C9 witness: a result of two tokens, from an argument that normalization
\* changed, was normalized again.
C9_Witness ==
    /\ nStage = "tokens"
    /\ Len(split(nOut[1])) = 2
    /\ nIn = PyList(<<PyStr(<<"b", " ">>), PyStr(<<"A", " ", " ", "b">>)>>)

\* C9, as stated: applying preprocess_symptoms to its result yields that
\* same result.
C9_IdempotentOnResult ==
    nStage = "literal" => nOut[2] = nOut[1]

\* trim, lower-case, one underscore per run of interior whitespace, by
\* position: the characters kept are the non-blank ones and the first of
\* each run of whitespace between the first and the last non-blank one
CanonicalToken(s) ==
    LET solid == {i \in 1..Len(s) : ~IsSpace(s[i])}
        kept == Ascending({i \in 1..Len(s) :
                    /\ \E a \in solid : a <= i
                    /\ \E b \in solid : i <= b
                    /\ (i \in solid \/ (i - 1) \in solid)})
    IN [k \in 1..Len(kept) |->
          IF IsSpace(s[kept[k]]) THEN "_" ELSE LowerChar(s[kept[k]])]

\* C10: for a list of strings, preprocess_symptoms returns the single-space
\* join, in ascending order and without duplicates, of the canonical tokens
\* of its entries (an entry that is blank after trimming has none).
C10_CanonicalJoin ==
    (/\ nStage # "input"
     /\ \A e \in Range(nIn.list) : isinstance_str(e))
    => LET result == nOut[1]
           tokens == split(result)
           expected == {CanonicalToken(e.str) : e \in
                           {x \in Range(nIn.list) : CanonicalToken(x.str) # <<>>}}
       IN /\ Range(tokens) = expected
          /\ Len(tokens) = Cardinality(expected)
          /\ \A k \in 1..(Len(tokens) - 1) : StrLess(tokens[k], tokens[k + 1])
          /\ result = join(tokens)

\* C10 witness: ["b", "A  b"] was normalized to "a_b b".
C10_Witness ==
    /\ nStage = "normalized"
    /\ nIn = PyList(<<PyStr(<<"b">>), PyStr(<<"A", " ", " ", "b">>)>>)
    /\ nOut[1] = <<"a", "_", "b", " ", "b">>

\* a str with a character that is not whitespace
IsValidEntry(e) ==
    /\ isinstance_str(e)
    /\ \E i \in 1..Len(e.str) : ~IsSpace(e.str[i])

\* C11: on a list holding non-strings, None, empty or whitespace-only
\* strings, preprocess_symptoms returns what it returns for the list without
\* those entries, and the empty string when no entry is left.
C11_InvalidEntriesDropped ==
    nStage # "input" =>
        LET valid == SelectSeq(nIn.list, IsValidEntry)
        IN /\ nOut[1] = preprocess_symptoms(PyList(valid))
           /\ valid = <<>> => nOut[1] = <<>>
           /\ valid # <<>> => nOut[1] # <<>>

\* C11 witness: [None, " "] was normalized, to the empty string.
C11_Witness ==
    /\ nStage = "normalized"
    /\ nIn = PyList(<<PyNone, PyStr(<<" ">>)>>)
    /\ nOut[1] = <<>>

\* C12: any permutation of the argument, and the argument with an added
\* entry that repeats one of its strings up to case and surrounding
\* whitespace, gives the same result as the argument.
C12_OrderAndDuplicateIndependent ==
    nStage \in {"permuted", "duplicated"} => nOut[2] = nOut[1]

\* C12 witness: ["b", "A"] gave "a b", and so did ["a", "b", "A"], which
\* has one more entry, "a", in front.
C12_Witness ==
    /\ nStage = "duplicated"
    /\ nIn = PyList(<<PyStr(<<"b">>), PyStr(<<"A">>)>>)
    /\ nAlt = PyList(<<PyStr(<<"a">>), PyStr(<<"b">>), PyStr(<<"A">>)>>)
    /\ nOut = <<<<"a", " ", "b">>, <<"a", " ", "b">>>>

\* the tokens the analyzer finds in the query document of the name s
QueryTokens(s) == Range(analyze(preprocess_symptoms(PyList(<<PyStr(s)>>))))

\* no token of the name s is in the vocabulary of the index
OutOfVocabulary(s) ==
    vectorizer.fitted => QueryTokens(s) \cap vectorizer.vocabulary = {}

\* seq with e inserted after its first at entries
InsertAt(seq, at, e) ==
    SubSeq(seq, 1, at) \o <<e>> \o SubSeq(seq, at + 1, Len(seq))

\* C13: on a model that passes the fit gate, recommend called with a query
\* to which an out-of-vocabulary symptom was added does not raise, computes
\* the same score for every disease and returns the same list as for the
\* query without it.
C13_UnknownTermNoWeight ==
    (IsListCall("recommend") /\ ~not_fit) =>
        \A s \in QueryNames : \A at \in 0..Len(ret.selected_symptoms.list) :
            LET extended == PyList(InsertAt(ret.selected_symptoms.list, at, PyStr(s)))
            IN OutOfVocabulary(s) =>
                 /\ ret.raised = "none"
                 /\ recommend(extended, ret.top_n) = Returned(ret.value)
                 /\ vectorizer.fitted =>
                        similarity_scores(preprocess_symptoms(extended)) =
                        similarity_scores(preprocess_symptoms(ret.selected_symptoms))

\* C13 witness: a query returned a disease with a non-zero score and a name
\* with no token in the vocabulary exists.
C13_Witness ==
    /\ IsListCall("recommend")
    /\ ~not_fit
    /\ vectorizer.fitted
    /\ Len(ret.selected_symptoms.list) = 1
    /\ \E k \in 1..Len(ret.value) : ~ScoreIsZero(ret.value[k][2])
    /\ \E s \in QueryNames : QueryTokens(s) \cap vectorizer.vocabulary = {}

\* the query document is empty or has no token in the vocabulary
ZeroQuery(selected_symptoms) ==
    LET tokens == Range(analyze(preprocess_symptoms(selected_symptoms)))
    IN \/ tokens = {}
       \/ vectorizer.fitted /\ tokens \cap vectorizer.vocabulary = {}

\* C14: on a model that has been fitted, indexing N >= 1 diseases, a query
\* whose document is empty or out of vocabulary makes recommend return
\* min(top_n, N) pairs (top_n >= 1), each with score 0.
C14_ZeroQueryAllZero ==
    (/\ IsListCall("recommend")
     /\ everFit
     /\ IndexedCount >= 1
     /\ ret.top_n >= 1
     /\ ZeroQuery(ret.selected_symptoms))
    => /\ ret.raised = "none"
       /\ Len(ret.value) =
             (IF ret.top_n < IndexedCount THEN ret.top_n ELSE IndexedCount)
       /\ \A k \in 1..Len(ret.value) : ScoreIsZero(ret.value[k][2])

\* a list whose entries are all str
IsListOfStrings(v) ==
    /\ isinstance_list(v)
    /\ \A i \in 1..Len(v.list) : isinstance_str(v.list[i])

\* C18: recommend raises TypeError whenever selected_symptoms is not a list
\* of strings (None, a plain str, a list with a non-string entry); it
\* returns no list then.  Stated for a model that passes the fit gate.
C18_NonStringsRaiseTypeError ==
    (ret.op = "recommend" /\ ~not_fit /\ ~IsListOfStrings(ret.selected_symptoms))
        => ret.raised = "TypeError"

IsQuery(op) == op \in {"recommend", "recommend_diseases", "recommend_with_details"}

\* the outcome of the query that has just ended, were it run now
QueryAgain ==
    IF ret.op = "recommend"
        THEN recommend(ret.selected_symptoms, ret.top_n)
    ELSE IF ret.op = "recommend_diseases"
        THEN recommend_diseases(ret.selected_symptoms, ret.top_n)
    ELSE recommend_with_details(ret.selected_symptoms, ret.top_n)

RECURSIVE DecimalValue(_)
DecimalValue(cs) ==
    IF cs = <<>> THEN 0
    ELSE LET digit == CASE cs[Len(cs)] = "0" -> 0 [] cs[Len(cs)] = "1" -> 1
                        [] cs[Len(cs)] = "2" -> 2 [] cs[Len(cs)] = "3" -> 3
         IN 10 * DecimalValue(SubSeq(cs, 1, Len(cs) - 1)) + digit

SeverityWeight(level) ==
    IF /\ isinstance_str(level)
       /\ level.str # <<>>
       /\ \A i \in 1..Len(level.str) : level.str[i] \in {"0", "1", "2", "3"}
    THEN DecimalValue(level.str)
    ELSE 1

\* how many of the whitespace-separated tokens of doc are tok
Occurrences(tok, doc) ==
    Cardinality({j \in 1..Len(split(doc)) : split(doc)[j] = tok})

\* C17: in each document a successful fit() has passed to the vectorizer,
\* the token of every symptom linked to the disease occurs as many times as
\* the symptom's severity weight, once when the severity is missing or not a
\* number.  Stated for the names without interior whitespace.
C17_SeverityReplication ==
    (ret.op = "fit" /\ ret.ok) =>
        LET frame == get_disease_symptom_matrix
            documents == cleaned_documents(frame)
        IN \A i \in 1..Len(documents) : \A s \in DbNames :
              (<<frame.rows[i].disease, s>> \in links /\ split(s) = <<s>>)
                  => Occurrences(CanonicalToken(s), documents[i])
                        = SeverityWeight(get_severity_by_symptom(s))

\* the index the fit() in progress builds when it succeeds, the one it was
\* entered with when it fails
IndexToPublish ==
    LET fitted == fit_transform(cleaned_documents(fitFrame))
    IN IF "disease" \notin fitFrame.columns \/ fitted.raised # "none" THEN prior
       ELSE <<fitted.vectorizer, fitted.matrix,
              [i \in 1..Len(fitFrame.rows) |-> fitFrame.rows[i].disease]>>

\* C19: a recommend call that runs while a re-fit is in progress on the same
\* model (a fit() entered with an index in place) finds the three attributes
\* as they were when fit() was entered or as the finished fit() leaves them,
\* never a mix.
C19_AtomicPublish ==
    (IsListCall("recommend") /\ fitPc # "idle" /\ prior[2] # PyNone) =>
        <<vectorizer, tfidf_matrix, disease_names>> \in {prior, IndexToPublish}

\* C15: a disease whose document has exactly the token set of the query
\* scores 1.0.
C15_SameTokensScoreOne ==
    (/\ fStage = "scored"
     /\ \A j \in 1..Len(fIn.terms) : fIn.terms[j].inRow /\ fIn.terms[j].inQuery)
    => fScore = FlOne

\* C16: every score lies in the closed interval [0.0, 1.0].
C16_ScoreInUnitInterval ==
    fStage = "scored" => ~fl_less(FlOne, fScore)

\* C21: fit() over a store without disease-symptom links (its queries
\* working) succeeds, and recommend with a list then finds the model fitted:
\* it raises no not-fit error and returns the empty list.
C21_EmptyCorpusFits ==
    (ret.op = "fit" /\ links = {} /\ ~dbDown) =>
        /\ ret.ok
        /\ \A sel \in Selections, n \in TopNs :
              isinstance_list(sel) => recommend(sel, n) = Returned(<<>>)

\* C22: whenever the model passes the fit gate, disease_names has one entry
\* per row of tfidf_matrix and the vectorizer is the fitted one whose
\* vocabulary the rows are over, whatever fit() calls succeeded or failed.
C22_NamesMatchRows ==
    ~not_fit =>
        /\ Len(disease_names) = Len(tfidf_matrix.rows)
        /\ vectorizer.fitted
        /\ \A i \in 1..Len(tfidf_matrix.rows) :
              DOMAIN tfidf_matrix.rows[i] = vectorizer.vocabulary

\* C23: when model.recommend returns and the storage lookups work,
\* recommend_with_details returns one dict per pair of model.recommend, in
\* the same order, with the keys disease, score, symptoms and precautions:
\* the pair's name and score unchanged, and what get_symptoms_by_disease and
\* get_precautions_by_disease return for that name.
C23_DetailsPerPair ==
    (/\ IsListCall("recommend_with_details")
     /\ ~dbDown
     /\ recommend(ret.selected_symptoms, ret.top_n).raised = "none")
    => LET pairs == recommend(ret.selected_symptoms, ret.top_n).value
       IN /\ ret.raised = "none"
          /\ Len(ret.value) = Len(pairs)
          /\ \A k \in 1..Len(pairs) :
                /\ DOMAIN ret.value[k] = {"disease", "score", "symptoms", "precautions"}
                /\ ret.value[k].disease = pairs[k][1]
                /\ ret.value[k].score = pairs[k][2]
                /\ ret.value[k].symptoms = get_symptoms_by_disease(pairs[k][1])
                /\ ret.value[k].precautions = get_precautions_by_disease(pairs[k][1])

\* C23 witness: two diseases with different symptom lists were ranked, one
\* with a precautions row and one without.
C23_Witness ==
    /\ IsListCall("recommend_with_details")
    /\ ~dbDown
    /\ Len(ret.value) = 2
    /\ ret.value[1].symptoms # ret.value[2].symptoms
    /\ \E k \in 1..2 : ret.value[k].precautions = PyNone
    /\ \E k \in 1..2 : ret.value[k].precautions # PyNone

C25_UniqueEmail ==
    /\ [](\A r1, r2 \in users : r1.email = r2.email => r1 = r2)
    /\ [][(/\ uRet'.op \in {"add_user", "register_user"}
           /\ \E row \in users : row.email = uRet'.email)
          => (~uRet'.value /\ users' = users)]_vars

\* C25 witness: add_user was refused for an email whose row has another
\* name and another password.
C25_Witness ==
    /\ uRet.op = "add_user"
    /\ ~uRet.value
    /\ \E row \in users :
          /\ row.email = uRet.email
          /\ row.name # uRet.name
          /\ row.password # uRet.password

\* C29: constructing a UserController over a database that holds data only
\* ensures that the tables exist: every user row and every disease-symptom
\* link present before the constructor call is present after it.
C29_ControllerKeepsRows ==
    [][uRet'.op = "UserController" =>
          (users \subseteq users' /\ links \subseteq links')]_vars

\* what a method's docstring gives as its value on error: False for the
\* methods that return bool, None for those that return an Optional, [] for
\* those that return a list, an empty DataFrame for the analytics
DocumentedFailure(controller, method) ==
    IF controller = "AnalyticsController" THEN NoFrame
    ELSE IF method \in {"list_users", "list_all_symptoms", "get_symptoms_for_disease",
                        "get_diseases_for_symptom"} THEN PyList(<<>>)
    ELSE IF method \in {"login_user", "get_profile", "get_precautions",
                        "get_description", "get_severity"} THEN PyNone
    ELSE PyBool(FALSE)

\* C26: a public method of AdminController, UserController, SymptomController
\* or AnalyticsController never raises: when the model or database call in it
\* raises, it returns its documented failure value, and when the call
\* returns, it returns that value unchanged.
C26_ControllersFailSoft ==
    cRet # NoCall =>
        /\ cRet.result.raised = "none"
        /\ cRet.call.raised # "none" =>
              cRet.result.value = DocumentedFailure(cRet.controller, cRet.method)
        /\ cRet.call.raised = "none" => cRet.result = cRet.call

\* C26 witness: get_precautions, whose call raised, returned None.
C26_Witness ==
    /\ cRet # NoCall
    /\ cRet.method = "get_precautions"
    /\ cRet.call.raised = "sqlite3.OperationalError"
    /\ cRet.result = Returned(PyNone)

\* C27: after the Logout button of the sidebar the session holds no
\* authenticated user: user and user_id are cleared from st.session_state and
\* current_page is login.
C27_LogoutClearsUser ==
    uRet.op = "logout" =>
        /\ session.user = PyNone
        /\ session.user_id = PyNone
        /\ session.current_page = "login"

ManagementDrawn ==
    \E button \in session.exposed : button[1] \in {"promote", "demote", "delete"}

StoredRole(email) ==
    IF RowsWithEmail(email) = {} THEN ""
    ELSE (CHOOSE row \in RowsWithEmail(email) : TRUE).role

\* C28: a run of the script draws the user-management buttons only on the
\* admin dashboard and only when the role stored for the session's user is
\* Admin; for any other stored role, or without a stored row, the admin
\* dashboard draws none of them and navigates to main.
C28_DashboardOnlyForAdmin ==
    (uRet.op = "run" /\ session.user # PyNone) =>
        /\ ManagementDrawn =>
              (uRet.page = "admin_dashboard" /\ StoredRole(session.user.email) = "Admin")
        /\ (uRet.page = "admin_dashboard" /\ StoredRole(session.user.email) # "Admin") =>
              (~ManagementDrawn /\ session.current_page = "main")

\* C28 witness: the admin dashboard was run for a user whose stored role is
\* no longer Admin.
C28_Witness ==
    /\ uRet.op = "run"
    /\ uRet.page = "admin_dashboard"
    /\ session.user # PyNone
    /\ StoredRole(session.user.email) = "User"
    /\ ~ManagementDrawn
    /\ session.current_page = "main"

\* C30: for every integer top_n, 0 and negative values included, recommend on
\* a fitted model returns at most max(top_n, 0) pairs.
C30_AtMostTopN ==
    (IsListCall("recommend") /\ everFit) =>
        Len(ret.value) <= (IF ret.top_n > 0 THEN ret.top_n ELSE 0)

====
